---- MODULE Spec2Model ----
(***************************************************************************)
(* A model of the diagram algebra and spider calculus of discopy:          *)
(*   frobenius.py  Diagram.spiders, Spider.__init__, Spider.dagger,        *)
(*                 Spider.unfuse, Functor.__call__                         *)
(*   zx.py         Spider.dagger, Z / X / Y, box2zx                        *)
(*   learner.py    Diagram.tensor, Diagram.interchange, Diagram.normal_form*)
(* Each group of operations has its own variables and its own              *)
(* specification; a specification leaves the other groups' variables alone.*)
(***************************************************************************)
EXTENDS Integers, Sequences, FiniteSets, TLC

\* ------------------------------------------------------------------ bounds
MaxTyLen == 3
MaxLegs == 3
MaxArity == 6
MaxPhase == 2
MaxBits == 3
NfLayers == 4
NfWidth == 4
NfDom == 2
TnLayers == 2
TnWidth == 2
TnDom == 1
PzLayers == 3
PzWidth == 2

\* --------------------------------------------------------------- variables
VARIABLES
    typ,          \* spiders: the type argument, a sequence of objects
    n_legs_in,    \* spiders: legs in of every per-object spider
    n_legs_out,   \* spiders: legs out of every per-object spider
    result_dom,   \* spiders: result.dom
    result_cod,   \* spiders: result.cod
    n_swaps,      \* spiders: number of swap layers composed onto result
    sp_i,         \* spiders: the outer loop index i
    sp_j,         \* spiders: the inner loop index j
    sp_pc,        \* spiders: position in Diagram.spiders
    un_spider,    \* unfuse: the spider unfuse is called on
    un_stack,     \* unfuse: the spiders whose unfuse call is pending
    un_calls,     \* unfuse: number of unfuse calls entered so far
    un_result,    \* unfuse: the diagram unfuse returned
    un_normal,    \* unfuse: the normal form of the diagram unfuse returned
    un_pc,        \* unfuse: position in the call
    dg_spider,    \* dagger: the spider object: its class and its box
    dg_once,      \* dagger: dg_spider.dagger()
    dg_twice,     \* dagger: dg_spider.dagger().dagger()
    dg_pc,        \* dagger: "idle", "new", "once" or "twice"
    fn_ob,        \* functor: the object map, from objects to types
    fn_ar,        \* functor: the boxes the arrow map has an entry for
    fn_other,     \* functor: the argument of Functor.__call__
    fn_result,    \* functor: the value returned
    fn_lookups,   \* functor: the boxes looked up in the arrow map
    fn_supers,    \* functor: the arguments handed to super().__call__
    fn_pc,        \* functor: "idle", "called" or "done"
    in_args,      \* Spider.__init__: n_legs_in, n_legs_out, typ and phase
    in_self,      \* Spider.__init__: the attributes typ and phase of self
    in_name,      \* Spider.__init__: the local name, <<>> before it is set
    in_dom,       \* Spider.__init__: the local dom, <<>> before it is set
    in_cod,       \* Spider.__init__: the local cod, <<>> before it is set
    in_result,    \* Spider.__init__: the box built, <<>> when none
    in_pc,        \* Spider.__init__: the line reached, or the error raised
    bx_box,       \* box2zx: the circuit box to translate
    bx_result,    \* box2zx: the value returned
    bx_raised,    \* box2zx: the exception raised, "" when none
    bx_pc,        \* box2zx: "idle", "called" or "done"
    nf_origin,    \* learner: the diagram the rewriting started from
    nf_diagram,   \* learner: the diagram reached by interchanges
    nf_left,      \* learner: the left argument of normal_form
    nf_result,    \* learner: what normal_form returned
    nf_pc,        \* learner: "idle", "rewriting" or "normal"
    tn_d1,        \* learner tensor: the left operand
    tn_d2,        \* learner tensor: the right operand
    tn_result,    \* learner tensor: d1 @ d2
    tn_pc,        \* learner tensor: "idle", "called" or "done"
    pz_diagram,   \* to_pyzx: the zx diagram exported
    pz_vertices,  \* to_pyzx: the vertices added to the graph, in order
    pz_edges,     \* to_pyzx: the edges added to the graph, in order
    pz_scan,      \* to_pyzx: the list scan
    pz_row,       \* to_pyzx: the number of layers processed
    pz_pc,        \* to_pyzx: "idle", "inputs", "layers" or "done"
    nm_args,      \* spider names: the arguments n_legs_in, n_legs_out, phase
    nm_names,     \* spider names: the name of Z(...), X(...) and Y(...)
    nm_pc         \* spider names: "idle", "called" or "done"

spVars == <<typ, n_legs_in, n_legs_out, result_dom, result_cod, n_swaps,
            sp_i, sp_j, sp_pc>>
unVars == <<un_spider, un_stack, un_calls, un_result, un_normal, un_pc>>

dgVars == <<dg_spider, dg_once, dg_twice, dg_pc>>

fnVars == <<fn_ob, fn_ar, fn_other, fn_result, fn_lookups, fn_supers, fn_pc>>

inVars == <<in_args, in_self, in_name, in_dom, in_cod, in_result, in_pc>>

bxVars == <<bx_box, bx_result, bx_raised, bx_pc>>
nfVars == <<nf_origin, nf_diagram, nf_left, nf_result, nf_pc>>
tnVars == <<tn_d1, tn_d2, tn_result, tn_pc>>
pzVars == <<pz_diagram, pz_vertices, pz_edges, pz_scan, pz_row, pz_pc>>
nmVars == <<nm_args, nm_names, nm_pc>>

vars == <<spVars, unVars, dgVars, fnVars, inVars, bxVars, nfVars, tnVars, pzVars, nmVars>>

\* What each group of operations leaves alone.
notSp == <<unVars, dgVars, fnVars, inVars, bxVars, nfVars, tnVars, pzVars, nmVars>>
notUn == <<spVars, dgVars, fnVars, inVars, bxVars, nfVars, tnVars, pzVars, nmVars>>
notDg == <<spVars, unVars, fnVars, inVars, bxVars, nfVars, tnVars, pzVars, nmVars>>
notFn == <<spVars, unVars, dgVars, inVars, bxVars, nfVars, tnVars, pzVars, nmVars>>
notIn == <<spVars, unVars, dgVars, fnVars, bxVars, nfVars, tnVars, pzVars, nmVars>>
notBx == <<spVars, unVars, dgVars, fnVars, inVars, nfVars, tnVars, pzVars, nmVars>>
notNf == <<spVars, unVars, dgVars, fnVars, inVars, bxVars, tnVars, pzVars, nmVars>>
notTn == <<spVars, unVars, dgVars, fnVars, inVars, bxVars, nfVars, pzVars, nmVars>>
notPz == <<spVars, unVars, dgVars, fnVars, inVars, bxVars, nfVars, tnVars, nmVars>>
notNm == <<spVars, unVars, dgVars, fnVars, inVars, bxVars, nfVars, tnVars, pzVars>>

\* ------------------------------------------------------------------- types
Objects == {"x", "y", "z"}

Min(a, b) == IF a < b THEN a ELSE b
Max(a, b) == IF a < b THEN b ELSE a

\* Python's s[lo:hi] for 0 <= lo, hi: indices lo .. min(hi, len(s)) - 1.
Slice(s, lo, hi) ==
    LET top == Min(hi, Len(s))
        n == Max(0, top - lo)
    IN [k \in 1..n |-> s[lo + k]]

\* Python's s[lo:].
SliceFrom(s, lo) == Slice(s, lo, Len(s))

\* t ** n: the n-fold concatenation of the type t.
RECURSIVE TyPow(_, _)
TyPow(t, n) == IF n = 0 THEN <<>> ELSE t \o TyPow(t, n - 1)

\* The types of length at most n over Objects.
RECURSIVE TypesUpTo(_)
TypesUpTo(n) ==
    IF n = 0 THEN {<<>>}
    ELSE LET S == TypesUpTo(n - 1)
         IN S \cup {Append(t, o) : t \in {u \in S : Len(u) = n - 1}, o \in Objects}

\* ------------------------------------------------- Diagram.spiders (C1)
\* The domain (n = n_legs_in) or codomain (n = n_legs_out) of the tensor of
\* the per-object spiders: one block of n wires per object, in block order.
RECURSIVE TensorBlocks(_, _)
TensorBlocks(t, n) ==
    IF t = <<>> THEN <<>>
    ELSE TyPow(<<Head(t)>>, n) \o TensorBlocks(Tail(t), n)

\* The slice bounds of a swap layer: the wire of object i is taken at index
\* SwapHi and brought to index SwapLo.
SwapLo(i, j) == i * j + i + j

SwapHiBug(i, j, n) == i * n
SwapHi(i, j, n) == i * n + j

\* result.dom[:lo] @ swap(t, result.dom[lo:hi]) @ result.dom[hi + 1:]
DomLayer(dom, t, i, j, n) ==
    LET lo == SwapLo(i, j)
        hi == SwapHi(i, j, n)
        mid == Slice(dom, lo, hi)
    IN [dom |-> Slice(dom, 0, lo) \o t \o mid \o SliceFrom(dom, hi + 1),
        cod |-> Slice(dom, 0, lo) \o mid \o t \o SliceFrom(dom, hi + 1)]

\* result.cod[:lo] @ swap(result.cod[lo:hi], t) @ result.cod[hi + 1:]
CodLayer(cod, t, i, j, n) ==
    LET lo == SwapLo(i, j)
        hi == SwapHi(i, j, n)
        mid == Slice(cod, lo, hi)
    IN [dom |-> Slice(cod, 0, lo) \o mid \o t \o SliceFrom(cod, hi + 1),
        cod |-> Slice(cod, 0, lo) \o t \o mid \o SliceFrom(cod, hi + 1)]

SpIdle ==
    /\ typ = <<>>
    /\ n_legs_in = 0
    /\ n_legs_out = 0
    /\ result_dom = <<>>
    /\ result_cod = <<>>
    /\ n_swaps = 0
    /\ sp_i = 0
    /\ sp_j = 0
    /\ sp_pc = "idle"

SpInit ==
    /\ typ \in TypesUpTo(MaxTyLen)
    /\ n_legs_in \in 0..MaxLegs
    /\ n_legs_out \in 0..MaxLegs
    /\ result_dom = <<>>
    /\ result_cod = <<>>
    /\ n_swaps = 0
    /\ sp_i = 0
    /\ sp_j = 0
    /\ sp_pc = "start"

\* result = cls.id().tensor(*[spider_factory(n_legs_in, n_legs_out, x) ...])
SpTensor ==
    /\ sp_pc = "start"
    /\ result_dom' = TensorBlocks(typ, n_legs_in)
    /\ result_cod' = TensorBlocks(typ, n_legs_out)
    /\ sp_i' = 0
    /\ sp_j' = 0
    /\ sp_pc' = "domloop"
    /\ UNCHANGED <<typ, n_legs_in, n_legs_out, n_swaps>>
    /\ UNCHANGED notSp

\* for i, t in enumerate(typ): the loop is over when typ is exhausted.
SpReturn ==
    /\ sp_pc = "domloop"
    /\ sp_i >= Len(typ)
    /\ sp_pc' = "done"
    /\ UNCHANGED <<typ, n_legs_in, n_legs_out, result_dom, result_cod, n_swaps,
                   sp_i, sp_j>>
    /\ UNCHANGED notSp

\* One iteration of `for j in range(n_legs_in - 1): result <<= ...`; the
\* composition raises when the layer's codomain is not result.dom.
SpDomSwap ==
    /\ sp_pc = "domloop"
    /\ sp_i < Len(typ)
    /\ sp_j < n_legs_in - 1
    /\ LET layer == DomLayer(result_dom, <<typ[sp_i + 1]>>, sp_i, sp_j, n_legs_in)
       IN IF layer.cod = result_dom
          THEN /\ result_dom' = layer.dom
               /\ n_swaps' = n_swaps + 1
               /\ sp_j' = sp_j + 1
               /\ sp_pc' = "domloop"
          ELSE /\ sp_pc' = "AxiomError"
               /\ UNCHANGED <<result_dom, n_swaps, sp_j>>
    /\ UNCHANGED <<typ, n_legs_in, n_legs_out, result_cod, sp_i>>
    /\ UNCHANGED notSp

\* range(n_legs_in - 1) is exhausted: on to the codomain loop of the same i.
SpDomDone ==
    /\ sp_pc = "domloop"
    /\ sp_i < Len(typ)
    /\ sp_j >= n_legs_in - 1
    /\ sp_j' = 0
    /\ sp_pc' = "codloop"
    /\ UNCHANGED <<typ, n_legs_in, n_legs_out, result_dom, result_cod, n_swaps,
                   sp_i>>
    /\ UNCHANGED notSp

\* One iteration of `for j in range(n_legs_out - 1): result >>= ...`; the
\* composition raises when the layer's domain is not result.cod.
SpCodSwap ==
    /\ sp_pc = "codloop"
    /\ sp_j < n_legs_out - 1
    /\ LET layer == CodLayer(result_cod, <<typ[sp_i + 1]>>, sp_i, sp_j, n_legs_out)
       IN IF layer.dom = result_cod
          THEN /\ result_cod' = layer.cod
               /\ n_swaps' = n_swaps + 1
               /\ sp_j' = sp_j + 1
               /\ sp_pc' = "codloop"
          ELSE /\ sp_pc' = "AxiomError"
               /\ UNCHANGED <<result_cod, n_swaps, sp_j>>
    /\ UNCHANGED <<typ, n_legs_in, n_legs_out, result_dom, sp_i>>
    /\ UNCHANGED notSp

\* range(n_legs_out - 1) is exhausted: the next object of typ.
SpCodDone ==
    /\ sp_pc = "codloop"
    /\ sp_j >= n_legs_out - 1
    /\ sp_i' = sp_i + 1
    /\ sp_j' = 0
    /\ sp_pc' = "domloop"
    /\ UNCHANGED <<typ, n_legs_in, n_legs_out, result_dom, result_cod, n_swaps>>
    /\ UNCHANGED notSp

SpNext ==
    \/ SpTensor
    \/ SpDomSwap
    \/ SpDomDone
    \/ SpCodSwap
    \/ SpCodDone
    \/ SpReturn

\* ---------------------------------------------------------------- diagrams
\* A diagram over one atomic type x (or over PRO): dom and cod are numbers of
\* wires, boxes[k] sits at offsets[k] wires from the left in layer k, and
\* raised names the exception the construction raised ("" when none).
Diagram(dom, cod, boxes, offsets) ==
    [dom |-> dom, cod |-> cod, boxes |-> boxes, offsets |-> offsets, raised |-> ""]

\* The identity diagram on n wires.
Id(n) == Diagram(n, n, <<>>, <<>>)

\* A box seen as a diagram: one layer, no padding.
BoxDiagram(box) == Diagram(box.dom, box.cod, <<box>>, <<0>>)

Raised(d1, d2) == IF d1.raised # "" THEN d1.raised ELSE d2.raised

\* d1 >> d2: the layers of d1 then those of d2; d1.cod must equal d2.dom.
Then(d1, d2) ==
    [dom |-> d1.dom, cod |-> d2.cod,
     boxes |-> d1.boxes \o d2.boxes,
     offsets |-> d1.offsets \o d2.offsets,
     raised |-> IF Raised(d1, d2) # "" THEN Raised(d1, d2)
                ELSE IF d1.cod # d2.dom THEN "AxiomError" ELSE ""]

\* d1 @ d2: the layers of d1, then those of d2 moved right by len(d1.cod).
Tensor(d1, d2) ==
    [dom |-> d1.dom + d2.dom, cod |-> d1.cod + d2.cod,
     boxes |-> d1.boxes \o d2.boxes,
     offsets |-> d1.offsets \o [k \in 1..Len(d2.offsets) |-> d2.offsets[k] + d1.cod],
     raised |-> Raised(d1, d2)]

\* The width of the diagram before layer k (k = Len(boxes) + 1: after the last).
RECURSIVE WidthAt(_, _)
WidthAt(d, k) ==
    IF k = 1 THEN d.dom
    ELSE WidthAt(d, k - 1) - d.boxes[k - 1].dom + d.boxes[k - 1].cod

\* Consecutive layers compose: every box fits in the wires present at its
\* layer, and the last layer leaves d.cod wires.
WellTyped(d) ==
    /\ Len(d.boxes) = Len(d.offsets)
    /\ \A k \in 1..Len(d.boxes) :
        /\ d.offsets[k] >= 0
        /\ d.offsets[k] + d.boxes[k].dom <= WidthAt(d, k)
    /\ WidthAt(d, Len(d.boxes) + 1) = d.cod

\* ------------------------------------------- interchange and normal form
\* Whether layer i (1-based) can move below layer i + 1: box i is to the
\* right of box i + 1, or, for the left normal form, to its left.
BoxOnRight(d, i) == d.offsets[i] >= d.offsets[i + 1] + d.boxes[i + 1].dom
BoxOnLeft(d, i) == d.offsets[i + 1] >= d.offsets[i] + d.boxes[i].cod

\* interchange(i, i + 1, left): the two adjacent layers trade places and the
\* box that passes the other one is re-offset; by default the box is first
\* looked for on the right, then on the left.
InterchangeAdjacent(d, i, left) ==
    LET off0 == d.offsets[i]
        off1 == d.offsets[i + 1]
        box0 == d.boxes[i]
        box1 == d.boxes[i + 1]
        swapped == [d.boxes EXCEPT ![i] = box1, ![i + 1] = box0]
    IN IF left /\ BoxOnLeft(d, i)
       THEN [d EXCEPT !.boxes = swapped,
                      !.offsets = [d.offsets EXCEPT
                          ![i] = off1 - box0.cod + box0.dom, ![i + 1] = off0]]
       ELSE IF BoxOnRight(d, i)
       THEN [d EXCEPT !.boxes = swapped,
                      !.offsets = [d.offsets EXCEPT
                          ![i] = off1, ![i + 1] = off0 - box1.dom + box1.cod]]
       ELSE IF BoxOnLeft(d, i)
       THEN [d EXCEPT !.boxes = swapped,
                      !.offsets = [d.offsets EXCEPT
                          ![i] = off1 - box0.cod + box0.dom, ![i + 1] = off0]]
       ELSE [d EXCEPT !.raised = "InterchangerError"]

\* interchange(i, j, left) with 0-based i, j as in the code: layer i is moved
\* to place j by adjacent interchanges.
RECURSIVE Interchange(_, _, _, _)
Interchange(d, i, j, left) ==
    IF d.raised # "" THEN d
    ELSE IF i < 0 \/ i >= Len(d.boxes) \/ j < 0 \/ j >= Len(d.boxes)
    THEN [d EXCEPT !.raised = "IndexError"]
    ELSE IF i = j THEN d
    ELSE IF j < i - 1
    THEN Interchange(InterchangeAdjacent(d, i, left), i - 1, j, left)
    ELSE IF j > i + 1
    THEN Interchange(InterchangeAdjacent(d, i + 1, left), i + 1, j, left)
    ELSE InterchangeAdjacent(d, Min(i, j) + 1, left)

\* One pass of normalize over the pairs of adjacent layers, from pair i on:
\* every pair that can move is interchanged; a diagram seen before raises.
RECURSIVE NormalizePass(_, _, _)
NormalizePass(st, i, left) ==
    IF st.d.raised # "" \/ i > Len(st.d.boxes) - 1 THEN st
    ELSE IF (left /\ BoxOnLeft(st.d, i)) \/ (~left /\ BoxOnRight(st.d, i))
    THEN LET next == InterchangeAdjacent(st.d, i, left)
         IN IF next \in st.cache
            THEN [st EXCEPT !.d = [next EXCEPT !.raised = "NotImplementedError"]]
            ELSE NormalizePass([d |-> next, moved |-> TRUE,
                                cache |-> st.cache \cup {next}], i + 1, left)
    ELSE NormalizePass(st, i + 1, left)

\* normalize: passes are repeated until one makes no move.
RECURSIVE Normalize(_, _)
Normalize(st, left) ==
    LET after == NormalizePass([st EXCEPT !.moved = FALSE], 1, left)
    IN IF after.d.raised # "" \/ ~after.moved THEN after
       ELSE Normalize(after, left)

\* normal_form(left): the last diagram normalize yields.
NormalForm(d, left) ==
    Normalize([d |-> d, moved |-> FALSE, cache |-> {}], left).d

\* ------------------------------------------------------- frobenius.Spider
\* Python's None is the empty sequence, a phase p is <<p>>.
None == <<>>

Phases == {None, <<0>>, <<1>>}

\* Spider(n_legs_in, n_legs_out, x, phase) over the atomic type x.
Spider(n_in, n_out, phase) ==
    [name |-> "Spider", dom |-> n_in, cod |-> n_out, phase |-> phase]

SpiderDaggerKeepPhase(s) == Spider(s.cod, s.dom, s.phase)
SpiderDagger(s) ==
    Spider(s.cod, s.dom, IF s.phase = None THEN None ELSE <<0 - s.phase[1]>>)

\* Diagram.dagger: the layers in reverse order, every box daggered.
DiagramDagger(d) ==
    LET n == Len(d.boxes)
    IN [dom |-> d.cod, cod |-> d.dom,
        boxes |-> [k \in 1..n |-> SpiderDagger(d.boxes[n + 1 - k])],
        offsets |-> [k \in 1..n |-> d.offsets[n + 1 - k]],
        raised |-> d.raised]

MinimalArities == {<<0, 1>>, <<1, 0>>, <<2, 1>>, <<1, 2>>}

\* The branch Spider.unfuse takes, in the order the code tests them.
Branch(s) ==
    IF s.phase # None THEN "phase"
    ELSE IF <<s.dom, s.cod>> \in MinimalArities THEN "minimal"
    ELSE IF <<s.dom, s.cod>> = <<1, 1>> THEN "identity"
    ELSE IF s.dom < s.cod THEN "dagger"
    ELSE IF s.cod # 1 THEN "split"
    ELSE IF s.dom % 2 = 1 THEN "odd"
    ELSE "even"

\* The spiders Spider.unfuse calls unfuse on, in call order.
CalleesNoPeel(s) ==
    LET a == s.dom
        b == s.cod
        br == Branch(s)
    IN CASE br = "phase" -> <<Spider(a, 1, None), Spider(1, b, None)>>
         [] br = "dagger" -> <<SpiderDagger(s)>>
         [] br = "split" -> <<Spider(a, 1, None), Spider(1, b, None)>>
         [] br = "odd" -> <<Spider(a, 1, None), Spider(2, 1, None)>>
         [] br = "even" -> <<Spider(a \div 2, 1, None)>>
         [] OTHER -> <<>>
Callees(s) ==
    LET a == s.dom
        b == s.cod
        br == Branch(s)
    IN CASE br = "phase" -> <<Spider(a, 1, None), Spider(1, b, None)>>
         [] br = "dagger" -> <<SpiderDagger(s)>>
         [] br = "split" -> <<Spider(a, 1, None), Spider(1, b, None)>>
         [] br = "odd" -> <<Spider(a - 1, 1, None), Spider(2, 1, None)>>
         [] br = "even" -> <<Spider(a \div 2, 1, None)>>
         [] OTHER -> <<>>

\* A well-founded measure of (phase present, a, b): it is 0 on the spiders
\* unfuse returns without a recursive call.
Measure(s) ==
    LET a == s.dom
        b == s.cod
        br == Branch(s)
    IN CASE br = "phase" -> a + b + 2
         [] br = "dagger" -> IF a = 1 THEN b + 1 ELSE a + b + 3
         [] br = "split" -> a + b + 2
         [] br \in {"odd", "even"} -> a
         [] OTHER -> 0

\* Speciality: the one-to-one spider without phase is the identity wire.
UnfuseIdentityKeepsBox(s) == BoxDiagram(s)
UnfuseIdentity(s) == Id(s.dom)

\* The phase shifter factory(1, 1, x, self.phase).
PhaseShifterDropsPhase(s) == BoxDiagram(Spider(1, 1, None))
PhaseShifter(s) == BoxDiagram(Spider(1, 1, s.phase))

\* a odd, b = 1: factory(a - 1, 1, x).unfuse() @ x >> factory(2, 1, x).unfuse()
UnfuseOddNoWire(rest, last) == Then(rest, last)
UnfuseOdd(rest, last) == Then(Tensor(rest, Id(1)), last)

\* a even, b = 1: half_spiders @ half_spiders >> factory(2, 1, x)
UnfuseEvenOneHalf(half_spiders) ==
    Then(half_spiders, BoxDiagram(Spider(2, 1, None)))
UnfuseEven(half_spiders) ==
    Then(Tensor(half_spiders, half_spiders), BoxDiagram(Spider(2, 1, None)))

\* Spider.unfuse: the diagram returned for the spider s.
RECURSIVE Unfuse(_)
Unfuse(s) ==
    LET br == Branch(s)
        c == Callees(s)
    IN CASE br = "phase" ->
              Then(Then(Unfuse(c[1]), PhaseShifter(s)), Unfuse(c[2]))
         [] br = "minimal" -> BoxDiagram(s)
         [] br = "identity" -> UnfuseIdentity(s)
         [] br = "dagger" -> DiagramDagger(Unfuse(c[1]))
         [] br = "split" -> Then(Unfuse(c[1]), Unfuse(c[2]))
         [] br = "odd" -> UnfuseOdd(Unfuse(c[1]), Unfuse(c[2]))
         [] OTHER -> UnfuseEven(Unfuse(c[1]))

UnIdle ==
    /\ un_spider = Spider(0, 0, None)
    /\ un_stack = <<>>
    /\ un_calls = 0
    /\ un_result = Id(0)
    /\ un_normal = Id(0)
    /\ un_pc = "idle"

UnSpiders ==
    {Spider(a, b, p) : a \in 0..MaxArity, b \in 0..MaxArity, p \in Phases}

\* Spider(a, b, x, phase).unfuse() is called.
UnInit ==
    /\ un_spider \in UnSpiders
    /\ un_stack = <<>>
    /\ un_calls = 0
    /\ un_result = Id(0)
    /\ un_normal = Id(0)
    /\ un_pc = "called"

\* The call returns the diagram Spider.unfuse computes.
UnfuseApply ==
    /\ un_pc = "called"
    /\ un_result' = Unfuse(un_spider)
    /\ un_pc' = "done"
    /\ UNCHANGED <<un_spider, un_stack, un_calls, un_normal>>
    /\ UNCHANGED notUn

\* Spider(a, b, x, phase).unfuse().normal_form()
UnfuseNormalForm ==
    /\ un_pc = "done"
    /\ un_normal' = NormalForm(un_result, FALSE)
    /\ un_pc' = "normal"
    /\ UNCHANGED <<un_spider, un_stack, un_calls, un_result>>
    /\ UNCHANGED notUn

\* The same call followed through its recursion: un_stack holds the spiders
\* whose unfuse call is pending, the outermost call first.
UnCallsInit ==
    /\ un_spider \in UnSpiders
    /\ un_stack = <<un_spider>>
    /\ un_calls = 0
    /\ un_result = Id(0)
    /\ un_normal = Id(0)
    /\ un_pc = "running"

\* The pending call on top of the stack is entered: it makes its own calls.
UnfuseCall ==
    /\ un_pc = "running"
    /\ un_stack # <<>>
    /\ un_stack' = Callees(Head(un_stack)) \o Tail(un_stack)
    /\ un_calls' = un_calls + 1
    /\ UNCHANGED <<un_spider, un_result, un_normal, un_pc>>
    /\ UNCHANGED notUn

\* No call is pending: the outermost call has returned.
UnfuseReturn ==
    /\ un_pc = "running"
    /\ un_stack = <<>>
    /\ un_pc' = "returned"
    /\ UNCHANGED <<un_spider, un_stack, un_calls, un_result, un_normal>>
    /\ UNCHANGED notUn

UnNext == UnfuseCall \/ UnfuseReturn

\* ---------------------------------------------------------- zx.Spider
\* The name each zx spider class hands to Spider.__init__.
ZxClassName(cls) ==
    CASE cls = "Z" -> "Z"
      [] cls = "Y" -> "Y"
      [] cls = "X" -> "Y"

\* Z(n_legs_in, n_legs_out, phase), Y(...) and X(...): the phase is the
\* box's data and defaults to 0.
ZxSpider(cls, n_in, n_out, phase) ==
    [name |-> ZxClassName(cls), dom |-> n_in, cod |-> n_out, phase |-> <<phase>>]

\* A spider object: its class and the box it is.
Object(cls, box) == [cls |-> cls, box |-> box]

\* zx.Spider.dagger: type(self)(len(self.cod), len(self.dom), -self.phase)
ZxDagger(obj) ==
    Object(obj.cls, ZxSpider(obj.cls, obj.box.cod, obj.box.dom, 0 - obj.box.phase[1]))

\* frobenius.Spider.dagger: type(self)(len(self.cod), len(self.dom), typ, phase)
FrobeniusDaggerKeepsLegs(obj) ==
    Object(obj.cls, SpiderDagger(SpiderDaggerKeepPhase(obj.box)))
FrobeniusDagger(obj) == Object(obj.cls, SpiderDagger(obj.box))

\* obj.dagger(), dispatched on the class of obj.
Dagger(obj) ==
    IF obj.cls = "Spider" THEN FrobeniusDagger(obj) ELSE ZxDagger(obj)

DgPhases == (0 - MaxPhase)..MaxPhase

DgSpiders ==
    {Object("Spider", Spider(n, m, p)) :
        n \in 0..MaxLegs, m \in 0..MaxLegs,
        p \in {None} \cup {<<q>> : q \in DgPhases}}
    \cup {Object(cls, ZxSpider(cls, n, m, q)) :
        cls \in {"Z", "X", "Y"}, n \in 0..MaxLegs, m \in 0..MaxLegs,
        q \in DgPhases}

DgIdle ==
    /\ dg_spider = Object("Spider", Spider(0, 0, None))
    /\ dg_once = dg_spider
    /\ dg_twice = dg_spider
    /\ dg_pc = "idle"

DgInit ==
    /\ dg_spider \in DgSpiders
    /\ dg_once = dg_spider
    /\ dg_twice = dg_spider
    /\ dg_pc = "new"

\* spider.dagger()
DaggerOnce ==
    /\ dg_pc = "new"
    /\ dg_once' = Dagger(dg_spider)
    /\ dg_pc' = "once"
    /\ UNCHANGED <<dg_spider, dg_twice>>
    /\ UNCHANGED notDg

\* spider.dagger().dagger()
DaggerTwice ==
    /\ dg_pc = "once"
    /\ dg_twice' = Dagger(dg_once)
    /\ dg_pc' = "twice"
    /\ UNCHANGED <<dg_spider, dg_once>>
    /\ UNCHANGED notDg

DgNext == DaggerOnce \/ DaggerTwice

\* ------------------------------------------------------ frobenius.Functor
\* The values Functor.__call__ is applied to: spider boxes over an atomic
\* type, other boxes, types, and diagrams given by their boxes.
FnSpider(n, m, o, phase) ==
    [cls |-> "Spider", name |-> "Spider", dom |-> TyPow(<<o>>, n),
     cod |-> TyPow(<<o>>, m), typ |-> <<o>>, phase |-> phase]

FnBox(name, dom, cod) == [cls |-> "Box", name |-> name, dom |-> dom, cod |-> cod]

FnTy(t) == [cls |-> "Ty", inside |-> t]

FnDiagram(boxes) == [cls |-> "Diagram", boxes |-> boxes]

\* isinstance(other, Spider)
IsSpiderNever(other) == FALSE
IsSpider(other) == other.cls = "Spider"

\* cod.ar.spiders(n_legs_in, n_legs_out, typ): the diagram of interleaving
\* spiders, with the boundary Diagram.spiders gives it.
Spiders(n, m, t) ==
    [cls |-> "Diagram", op |-> "spiders", n_legs_in |-> n, n_legs_out |-> m,
     typ |-> t, dom |-> TyPow(t, n), cod |-> TyPow(t, m)]

\* The image ar[box] of a box the arrow map has an entry for.
ArImage(box) == [cls |-> "Diagram", op |-> "ar", of |-> box]

KeyError == [cls |-> "KeyError"]

\* The object map applied objectwise to a type, the images tensored.
RECURSIVE ApplyOb(_, _)
ApplyOb(ob, t) ==
    IF t = <<>> THEN <<>> ELSE ob[Head(t)] \o ApplyOb(ob, Tail(t))

\* The union of the lookups, and the concatenation of the super() arguments,
\* of a sequence of calls.
RECURSIVE AllLookups(_)
AllLookups(calls) ==
    IF calls = <<>> THEN {} ELSE Head(calls).lookups \cup AllLookups(Tail(calls))

RECURSIVE AllSupers(_)
AllSupers(calls) ==
    IF calls = <<>> THEN <<>> ELSE Head(calls).supers \o AllSupers(Tail(calls))

\* Functor.__call__(other): a spider goes to the target category's spiders
\* with the image of its type; everything else goes to super().__call__,
\* which maps a type objectwise, looks a box up in the arrow map, and maps a
\* diagram box by box through self.
RECURSIVE FunctorCall(_, _, _)
FunctorCall(ob, ar, other) ==
    IF IsSpider(other)
    THEN LET image == FunctorCall(ob, ar, FnTy(other.typ))
         IN [result |-> Spiders(Len(other.dom), Len(other.cod), image.result.inside),
             lookups |-> image.lookups,
             supers |-> image.supers]
    ELSE IF other.cls = "Ty"
    THEN [result |-> FnTy(ApplyOb(ob, other.inside)),
          lookups |-> {},
          supers |-> <<other>>]
    ELSE IF other.cls = "Diagram"
    THEN LET calls == [k \in 1..Len(other.boxes) |->
                          FunctorCall(ob, ar, other.boxes[k])]
         IN [result |-> FnDiagram([k \in 1..Len(calls) |-> calls[k].result]),
             lookups |-> AllLookups(calls),
             supers |-> <<other>> \o AllSupers(calls)]
    ELSE [result |-> IF other \in ar THEN ArImage(other) ELSE KeyError,
          lookups |-> {other},
          supers |-> <<other>>]

FnSpiders ==
    {FnSpider(n, m, o, p) : n \in 0..MaxLegs, m \in 0..MaxLegs, o \in Objects,
                            p \in {None, <<1>>}}

FnBoxes == {FnBox("f", <<"x">>, <<"y">>), FnBox("g", <<"y", "y">>, <<"x">>)}

FnDiagrams ==
    {FnDiagram(<<b1, b2>>) :
        b1 \in FnBoxes \cup {FnSpider(1, 2, "y", None)},
        b2 \in FnBoxes \cup {FnSpider(2, 1, "x", <<1>>)}}

FnArguments ==
    FnSpiders \cup FnBoxes \cup FnDiagrams \cup {FnTy(t) : t \in TypesUpTo(2)}

\* Object maps: onto the same object, onto a composite type, onto the empty
\* type.
FnObMaps ==
    {[o \in Objects |-> <<o>>], [o \in Objects |-> <<o, "z">>],
     [o \in Objects |-> IF o = "x" THEN <<>> ELSE <<"x", "y">>]}

\* The spider boxes an argument holds.
SpidersOf(other) ==
    IF other.cls = "Spider" THEN {other}
    ELSE IF other.cls = "Diagram"
    THEN {other.boxes[k] : k \in {j \in 1..Len(other.boxes) :
                                      other.boxes[j].cls = "Spider"}}
    ELSE {}

FnIdle ==
    /\ fn_ob = [o \in Objects |-> <<o>>]
    /\ fn_ar = {}
    /\ fn_other = FnTy(<<>>)
    /\ fn_result = FnTy(<<>>)
    /\ fn_lookups = {}
    /\ fn_supers = <<>>
    /\ fn_pc = "idle"

\* A functor is built and applied: its arrow map has no entry, an entry for
\* every box that is no spider, or also one for the spiders of the argument.
FnInit ==
    /\ fn_ob \in FnObMaps
    /\ fn_other \in FnArguments
    /\ fn_ar \in {{}, FnBoxes, FnBoxes \cup SpidersOf(fn_other)}
    /\ fn_result = FnTy(<<>>)
    /\ fn_lookups = {}
    /\ fn_supers = <<>>
    /\ fn_pc = "called"

\* F(other) returns.
FunctorApply ==
    /\ fn_pc = "called"
    /\ LET call == FunctorCall(fn_ob, fn_ar, fn_other)
       IN /\ fn_result' = call.result
          /\ fn_lookups' = call.lookups
          /\ fn_supers' = call.supers
    /\ fn_pc' = "done"
    /\ UNCHANGED <<fn_ob, fn_ar, fn_other>>
    /\ UNCHANGED notFn

\* ------------------------------------------------------- Spider.__init__
\* assert_isatomic(typ) passes for a type of exactly one object.
IsAtomic(t) == Len(t) = 1

\* "Spider({}, {}, {}{})".format(n_legs_in, n_legs_out, typ, phase or "")
SpiderName(n_in, n_out, t, phase) == <<"Spider", n_in, n_out, t, phase>>

InArgs ==
    [n_legs_in : 0..MaxLegs, n_legs_out : 0..MaxLegs,
     typ : TypesUpTo(MaxTyLen), phase : {None, <<1>>}]

InIdle ==
    /\ in_args = [n_legs_in |-> 0, n_legs_out |-> 0, typ |-> <<>>, phase |-> None]
    /\ in_self = <<>>
    /\ in_name = <<>>
    /\ in_dom = <<>>
    /\ in_cod = <<>>
    /\ in_result = <<>>
    /\ in_pc = "idle"

\* Spider(n_legs_in, n_legs_out, typ, phase) is called.
InInit ==
    /\ in_args \in InArgs
    /\ in_self = <<>>
    /\ in_name = <<>>
    /\ in_dom = <<>>
    /\ in_cod = <<>>
    /\ in_result = <<>>
    /\ in_pc = "assign"

\* self.typ, self.phase = typ, phase
InitAssign ==
    /\ in_pc = "assign"
    /\ in_self' = <<[typ |-> in_args.typ, phase |-> in_args.phase]>>
    /\ in_pc' = "assert"
    /\ UNCHANGED <<in_args, in_name, in_dom, in_cod, in_result>>
    /\ UNCHANGED notIn

\* assert_isatomic(typ)
InitAssertSkipped ==
    /\ in_pc = "assert"
    /\ in_pc' = "name"
    /\ UNCHANGED <<in_args, in_self, in_name, in_dom, in_cod, in_result>>
    /\ UNCHANGED notIn
InitAssert ==
    /\ in_pc = "assert"
    /\ in_pc' = IF IsAtomic(in_args.typ) THEN "name" ELSE "NotAtomic"
    /\ UNCHANGED <<in_args, in_self, in_name, in_dom, in_cod, in_result>>
    /\ UNCHANGED notIn

\* name = "Spider({}, {}, {}{})".format(...)
InitName ==
    /\ in_pc = "name"
    /\ in_name' = <<SpiderName(in_args.n_legs_in, in_args.n_legs_out,
                               in_args.typ, in_args.phase)>>
    /\ in_pc' = "types"
    /\ UNCHANGED <<in_args, in_self, in_dom, in_cod, in_result>>
    /\ UNCHANGED notIn

\* dom, cod = typ ** n_legs_in, typ ** n_legs_out
InitTypes ==
    /\ in_pc = "types"
    /\ in_dom' = <<TyPow(in_args.typ, in_args.n_legs_in)>>
    /\ in_cod' = <<TyPow(in_args.typ, in_args.n_legs_out)>>
    /\ in_pc' = "box"
    /\ UNCHANGED <<in_args, in_self, in_name, in_result>>
    /\ UNCHANGED notIn

\* Box.__init__(self, name, dom, cod, **params): the spider box is built.
InitBox ==
    /\ in_pc = "box"
    /\ in_result' = <<[name |-> in_name[1], dom |-> in_dom[1], cod |-> in_cod[1],
                       typ |-> in_self[1].typ, phase |-> in_self[1].phase]>>
    /\ in_pc' = "done"
    /\ UNCHANGED <<in_args, in_self, in_name, in_dom, in_cod>>
    /\ UNCHANGED notIn

InNext ==
    \/ InitAssign
    \/ InitAssert
    \/ InitName
    \/ InitTypes
    \/ InitBox

\* ---------------------------------------------------------------- box2zx
\* A circuit box: its class, its name, and the bitstring (Bra, Ket) or the
\* phase (rotations) it carries.
Gate(cls, name, bits, phase) ==
    [cls |-> cls, name |-> name, bitstring |-> bits, phase |-> phase]

\* The names zx.py imports from discopy.quantum.
ImportedNames ==
    {"Bra", "Ket", "Rz", "Rx", "H", "CX", "CZ", "CRz", "CRx",
     "PauliZ", "PauliX", "PauliY"}

\* The tests of box2zx in order: isinstance(box, name) or box == name.
Box2zxTests ==
    <<[test |-> "isinstance", name |-> "Bra"],
      [test |-> "isinstance", name |-> "Ket"],
      [test |-> "isinstance", name |-> "Rz"],
      [test |-> "isinstance", name |-> "Rx"],
      [test |-> "==", name |-> "H"],
      [test |-> "==", name |-> "CX"],
      [test |-> "==", name |-> "CZ"],
      [test |-> "==", name |-> "PauliZ"],
      [test |-> "==", name |-> "PauliY"],
      [test |-> "==", name |-> "PauliX"],
      [test |-> "isinstance", name |-> "CRz"],
      [test |-> "isinstance", name |-> "CRx"],
      [test |-> "isinstance", name |-> "CU1"]>>

\* The gate each imported gate name is bound to (Z, X, Y are imported as
\* PauliZ, PauliX, PauliY).
GateNamed(name) ==
    CASE name = "PauliZ" -> Gate("QuantumGate", "Z", <<>>, None)
      [] name = "PauliY" -> Gate("QuantumGate", "Y", <<>>, None)
      [] name = "PauliX" -> Gate("QuantumGate", "X", <<>>, None)
      [] OTHER -> Gate("QuantumGate", name, <<>>, None)

Matches(box, t) ==
    IF t.test = "isinstance" THEN box.cls = t.name ELSE box = GateNamed(t.name)

ZxBox(cls, n_in, n_out, phase) == BoxDiagram(ZxSpider(cls, n_in, n_out, phase))

Had == BoxDiagram([name |-> "H", dom |-> 1, cod |-> 1, phase |-> None])

\* reduce(lambda a, b: a @ b, map(lambda p: X(n_in, n_out, phase=p), bits))
RECURSIVE TensorBits(_, _, _)
TensorBits(bits, n_in, n_out) ==
    IF Len(bits) = 1 THEN ZxBox("X", n_in, n_out, bits[1])
    ELSE Tensor(TensorBits(SubSeq(bits, 1, Len(bits) - 1), n_in, n_out),
                ZxBox("X", n_in, n_out, bits[Len(bits)]))

\* Z(1, 2, p1) @ Z(1, 2, p2) >> Id(1) @ (X(2, 1) >> Z(1, 0, -p)) @ Id(1),
\* and the same with the colours exchanged.
Controlled(c1, c2, p1, p2, p) ==
    Then(Tensor(ZxBox(c1, 1, 2, p1), ZxBox(c1, 1, 2, p2)),
         Tensor(Tensor(Id(1), Then(ZxBox(c2, 2, 1, 0), ZxBox(c1, 1, 0, 0 - p))),
                Id(1)))

\* The diagram box2zx returns when test k matches.
Translation(box, k) ==
    LET name == Box2zxTests[k].name
        p == IF box.phase = None THEN 0 ELSE box.phase[1]
    IN CASE name = "Bra" -> TensorBits(box.bitstring, 1, 0)
         [] name = "Ket" -> TensorBits(box.bitstring, 0, 1)
         [] name = "Rz" -> ZxBox("Z", 1, 1, p)
         [] name = "Rx" -> ZxBox("X", 1, 1, p)
         [] name = "H" -> Had
         [] name = "CX" ->
              Then(Tensor(ZxBox("Z", 1, 2, 0), Id(1)),
                   Tensor(Id(1), ZxBox("X", 2, 1, 0)))
         [] name = "CZ" ->
              Then(Then(Tensor(ZxBox("Z", 1, 2, 0), Id(1)),
                        Tensor(Tensor(Id(1), Had), Id(1))),
                   Tensor(Id(1), ZxBox("Z", 2, 1, 0)))
         [] name = "PauliZ" -> ZxBox("Z", 1, 1, 1)
         [] name = "PauliY" -> ZxBox("Y", 1, 1, 1)
         [] name = "PauliX" -> ZxBox("X", 1, 1, 1)
         [] name = "CRz" -> Controlled("Z", "X", 0, p, p)
         [] name = "CRx" -> Controlled("X", "Z", 0, p, p)
         [] name = "CU1" -> Controlled("Z", "X", p, p, p)

\* box2zx from test k on: a test on a name that is not bound raises
\* NameError; the first test that matches decides; after the last test the
\* box itself is returned.
RECURSIVE Box2zxFrom(_, _)
Box2zxFrom(box, k) ==
    IF k > Len(Box2zxTests) THEN [value |-> box, raised |-> ""]
    ELSE IF Box2zxTests[k].name \notin ImportedNames
    THEN [value |-> box, raised |-> "NameError"]
    ELSE IF Matches(box, Box2zxTests[k])
    THEN [value |-> Translation(box, k), raised |-> ""]
    ELSE Box2zxFrom(box, k + 1)

Box2zx(box) == Box2zxFrom(box, 1)

RECURSIVE BitStrings(_)
BitStrings(n) ==
    IF n = 0 THEN {<<>>}
    ELSE LET S == BitStrings(n - 1)
         IN S \cup {Append(b, v) : b \in {c \in S : Len(c) = n - 1}, v \in {0, 1}}

\* The circuit boxes: the gates of the table, and boxes it does not cover.
CoveredGates ==
    {Gate(cls, cls, b, None) : cls \in {"Bra", "Ket"},
                               b \in BitStrings(MaxBits) \ {<<>>}}
    \cup {Gate(cls, cls, <<>>, <<q>>) :
            cls \in {"Rz", "Rx", "CRz", "CRx", "CU1"}, q \in DgPhases}
    \cup {GateNamed(n) : n \in {"H", "CX", "CZ", "PauliZ", "PauliY", "PauliX"}}

UncoveredBoxes ==
    {Gate("QuantumGate", "SWAP", <<>>, None), Gate("QuantumGate", "S", <<>>, None),
     Gate("QuantumGate", "T", <<>>, None), Gate("Measure", "Measure", <<>>, None),
     Gate("Discard", "Discard", <<>>, None), Gate("Box", "f", <<>>, None)}

BxIdle ==
    /\ bx_box = Gate("Box", "f", <<>>, None)
    /\ bx_result = bx_box
    /\ bx_raised = ""
    /\ bx_pc = "idle"

BxInit ==
    /\ bx_box \in CoveredGates \cup UncoveredBoxes
    /\ bx_result = bx_box
    /\ bx_raised = ""
    /\ bx_pc = "called"

\* box2zx(box) returns or raises.
Box2zxApply ==
    /\ bx_pc = "called"
    /\ LET out == Box2zx(bx_box)
       IN /\ bx_result' = out.value
          /\ bx_raised' = out.raised
    /\ bx_pc' = "done"
    /\ UNCHANGED bx_box
    /\ UNCHANGED notBx

\* --------------------------------------------------------------- learner
\* learner.Diagram(dom, cod, boxes, offsets): dom and cod are numbers of
\* wires, turned into PRO(dom) and PRO(cod).
LearnerDiagram(dom, cod, boxes, offsets) == Diagram(dom, cod, boxes, offsets)

\* return Diagram(len(result.dom), len(result.cod), result.boxes,
\*                result.offsets, _fast=True); an exception of super() is
\* passed on.
Rewrap(result) ==
    IF result.raised # "" THEN result
    ELSE LearnerDiagram(result.dom, result.cod, result.boxes, result.offsets)

LearnerThen(d1, d2) == Rewrap(Then(d1, d2))

LearnerTensorUnshifted(d1, d2) ==
    Rewrap([Tensor(d1, d2) EXCEPT !.offsets = d1.offsets \o d2.offsets])
LearnerTensor(d1, d2) == Rewrap(Tensor(d1, d2))

LearnerInterchange(d, i, j, left) == Rewrap(Interchange(d, i, j, left))

LearnerNormalFormSkipped(d, left) == Rewrap(d)
LearnerNormalForm(d, left) == Rewrap(NormalForm(d, left))

\* Box(name, dom, cod, function)
LearnerBox(name, dom, cod) == [name |-> name, dom |-> dom, cod |-> cod]

SWAP == LearnerBox("SWAP", 2, 2)
COPY == LearnerBox("COPY", 1, 2)
ADD == LearnerBox("ADD", 2, 1)
\* Copy(dom, copies) has codomain copies * dom and Sum(cod, copies) has
\* domain copies * cod: with no copies they discard a wire and introduce one.
Copy(dom, copies) == LearnerBox(<<"Copy", dom, copies>>, dom, copies * dom)
Sum(cod, copies) == LearnerBox(<<"Sum", cod, copies>>, copies * cod, cod)

Generators == {SWAP, COPY, ADD, Copy(1, 0), Sum(1, 0)}

\* d >> Id(offset) @ box @ Id(rest): one more layer under d.
AddLayer(d, box, offset) ==
    LearnerThen(d, LearnerTensor(LearnerTensor(Id(offset), BoxDiagram(box)),
                                 Id(d.cod - offset - box.dom)))

\* The diagrams of at most n layers over the generators that are never wider
\* than w wires and have at most m input wires.
RECURSIVE LearnerDiagrams(_, _, _)
LearnerDiagrams(n, w, m) ==
    IF n = 0 THEN {Id(k) : k \in 0..Min(w, m)}
    ELSE LET S == LearnerDiagrams(n - 1, w, m)
         IN S \cup {AddLayer(d, b, o) :
                      <<d, b, o>> \in
                        {t \in {c \in S : Len(c.boxes) = n - 1}
                               \X Generators \X (0..w) :
                            /\ t[3] + t[2].dom <= t[1].cod
                            /\ t[1].cod - t[2].dom + t[2].cod <= w}}

NfIdle ==
    /\ nf_origin = Id(0)
    /\ nf_diagram = Id(0)
    /\ nf_left = FALSE
    /\ nf_result = Id(0)
    /\ nf_pc = "idle"

NfInit ==
    /\ nf_origin \in LearnerDiagrams(NfLayers, NfWidth, NfDom)
    /\ nf_diagram = nf_origin
    /\ nf_left = FALSE
    /\ nf_result = Id(0)
    /\ nf_pc = "rewriting"

\* diagram = diagram.interchange(i, j, left); a call that raises leaves the
\* diagram as it was.
LearnerInterchangeCall ==
    /\ nf_pc = "rewriting"
    /\ \E i, j \in 0..(Len(nf_diagram.boxes) - 1), left \in BOOLEAN :
        LET result == LearnerInterchange(nf_diagram, i, j, left)
        IN /\ result.raised = ""
           /\ nf_diagram' = result
    /\ UNCHANGED <<nf_origin, nf_left, nf_result, nf_pc>>
    /\ UNCHANGED notNf

\* diagram.normal_form(left)
LearnerNormalFormCall ==
    /\ nf_pc = "rewriting"
    /\ \E left \in BOOLEAN :
        /\ nf_left' = left
        /\ nf_result' = LearnerNormalForm(nf_diagram, left)
    /\ nf_pc' = "normal"
    /\ UNCHANGED <<nf_origin, nf_diagram>>
    /\ UNCHANGED notNf

NfNext == LearnerInterchangeCall \/ LearnerNormalFormCall

TnIdle ==
    /\ tn_d1 = Id(0)
    /\ tn_d2 = Id(0)
    /\ tn_result = Id(0)
    /\ tn_pc = "idle"

TnInit ==
    /\ tn_d1 \in LearnerDiagrams(TnLayers, TnWidth, TnDom)
    /\ tn_d2 \in LearnerDiagrams(TnLayers, TnWidth, TnDom)
    /\ tn_result = Id(0)
    /\ tn_pc = "called"

\* d1 @ d2
LearnerTensorCall ==
    /\ tn_pc = "called"
    /\ tn_result' = LearnerTensor(tn_d1, tn_d2)
    /\ tn_pc' = "done"
    /\ UNCHANGED <<tn_d1, tn_d2>>
    /\ UNCHANGED notTn

\* --------------------------------------------------------------- to_pyzx
\* The boxes of a zx diagram as objects: spiders of the classes Z, X, Y, the
\* swap of two wires, and the Hadamard box.
ZxSwap == Object("Swap", [name |-> "SWAP", dom |-> 2, cod |-> 2, phase |-> None])
ZxHad == Object("Had", [name |-> "H", dom |-> 1, cod |-> 1, phase |-> None])

\* isinstance(box, Spider), isinstance(box, Swap)
IsZxSpider(obj) == obj.cls \in {"Z", "X", "Y"}
IsZxSwap(obj) == obj.cls = "Swap"

\* A zx diagram: objects boxes[k] at offsets[k], from dom to cod wires.
ZxDiagram(dom, cod, boxes, offsets) ==
    [dom |-> dom, cod |-> cod, boxes |-> boxes, offsets |-> offsets]

PzBoxes ==
    {Object(cls, ZxSpider(cls, n, m, 0)) :
        cls \in {"Z", "X"}, n \in 0..PzWidth, m \in 0..PzWidth}
    \cup {Object(cls, ZxSpider(cls, 1, 1, 1)) : cls \in {"Z", "X", "Y"}}
    \cup {ZxSwap, ZxHad}

\* The diagrams of at most n layers over PzBoxes, never wider than PzWidth.
RECURSIVE PzDiagrams(_)
PzDiagrams(n) ==
    IF n = 0 THEN {ZxDiagram(k, k, <<>>, <<>>) : k \in 0..PzWidth}
    ELSE LET S == PzDiagrams(n - 1)
         IN S \cup {ZxDiagram(t[1].dom, t[1].cod - t[2].box.dom + t[2].box.cod,
                              Append(t[1].boxes, t[2]), Append(t[1].offsets, t[3])) :
                      t \in {u \in {c \in S : Len(c.boxes) = n - 1}
                                   \X PzBoxes \X (0..PzWidth) :
                               /\ u[3] + u[2].box.dom <= u[1].cod
                               /\ u[1].cod - u[2].box.dom + u[2].box.cod <= PzWidth}}

\* graph.add_vertex(ty, phase) followed by graph.set_position(node, x, y):
\* the vertex gets the next index, counted from 0.
Vertex(ty, phase, x, y) == [ty |-> ty, phase |-> phase, x |-> x, y |-> y]

PzIdle ==
    /\ pz_diagram = ZxDiagram(0, 0, <<>>, <<>>)
    /\ pz_vertices = <<>>
    /\ pz_edges = <<>>
    /\ pz_scan = <<>>
    /\ pz_row = 0
    /\ pz_pc = "idle"

PzInit ==
    /\ pz_diagram \in PzDiagrams(PzLayers)
    /\ pz_vertices = <<>>
    /\ pz_edges = <<>>
    /\ pz_scan = <<>>
    /\ pz_row = 0
    /\ pz_pc = "inputs"

\* for i, _ in enumerate(self.dom): one boundary vertex per input wire.
PzInputs ==
    /\ pz_pc = "inputs"
    /\ pz_vertices' = [i \in 1..pz_diagram.dom |-> Vertex("BOUNDARY", None, i - 1, 0)]
    /\ pz_scan' = [i \in 1..pz_diagram.dom |-> i - 1]
    /\ pz_pc' = "layers"
    /\ UNCHANGED <<pz_diagram, pz_edges, pz_row>>
    /\ UNCHANGED notPz

\* The layer a spider is in: one vertex, one edge per leg of its domain from
\* scan[offset + i], and len(box.cod) entries of scan for the new vertex.
PzSpiderScanKept(scan, offset, box, node) == scan
PzSpiderScan(scan, offset, box, node) ==
    Slice(scan, 0, offset) \o [k \in 1..box.cod |-> node]
        \o SliceFrom(scan, offset + box.dom)

PzSpider ==
    /\ pz_pc = "layers"
    /\ pz_row < Len(pz_diagram.boxes)
    /\ IsZxSpider(pz_diagram.boxes[pz_row + 1])
    /\ LET obj == pz_diagram.boxes[pz_row + 1]
           offset == pz_diagram.offsets[pz_row + 1]
           node == Len(pz_vertices)
       IN /\ pz_vertices' = Append(pz_vertices,
                Vertex(IF obj.cls = "Z" THEN "Z" ELSE "X",
                       IF obj.box.phase[1] # 0 THEN obj.box.phase ELSE None,
                       offset, pz_row + 1))
          /\ pz_edges' = pz_edges \o
                [i \in 1..obj.box.dom |-> <<pz_scan[offset + i], node>>]
          /\ pz_scan' = PzSpiderScan(pz_scan, offset, obj.box, node)
    /\ pz_row' = pz_row + 1
    /\ UNCHANGED <<pz_diagram, pz_pc>>
    /\ UNCHANGED notPz

\* The layer a swap is in: the two entries of scan trade places.
PzSwap ==
    /\ pz_pc = "layers"
    /\ pz_row < Len(pz_diagram.boxes)
    /\ IsZxSwap(pz_diagram.boxes[pz_row + 1])
    /\ LET offset == pz_diagram.offsets[pz_row + 1]
       IN pz_scan' = Slice(pz_scan, 0, offset)
                \o <<pz_scan[offset + 2], pz_scan[offset + 1]>>
                \o SliceFrom(pz_scan, offset + 2)
    /\ pz_row' = pz_row + 1
    /\ UNCHANGED <<pz_diagram, pz_vertices, pz_edges, pz_pc>>
    /\ UNCHANGED notPz

\* A box that is neither a spider nor a swap: the layer changes nothing.
PzOther ==
    /\ pz_pc = "layers"
    /\ pz_row < Len(pz_diagram.boxes)
    /\ ~IsZxSpider(pz_diagram.boxes[pz_row + 1])
    /\ ~IsZxSwap(pz_diagram.boxes[pz_row + 1])
    /\ pz_row' = pz_row + 1
    /\ UNCHANGED <<pz_diagram, pz_vertices, pz_edges, pz_scan, pz_pc>>
    /\ UNCHANGED notPz

\* for i, _ in enumerate(self.cod): one boundary vertex per output wire, with
\* an edge from scan[i].
PzOutputs ==
    /\ pz_pc = "layers"
    /\ pz_row = Len(pz_diagram.boxes)
    /\ pz_vertices' = pz_vertices \o
            [i \in 1..pz_diagram.cod |->
                Vertex("BOUNDARY", None, i - 1, Len(pz_diagram.boxes) + 1)]
    /\ pz_edges' = pz_edges \o
            [i \in 1..pz_diagram.cod |-> <<pz_scan[i], Len(pz_vertices) + i - 1>>]
    /\ pz_pc' = "done"
    /\ UNCHANGED <<pz_diagram, pz_scan, pz_row>>
    /\ UNCHANGED notPz

PzNext == PzInputs \/ PzSpider \/ PzSwap \/ PzOther \/ PzOutputs

\* ---------------------------------------------------------- Spider.name
\* "{}({}, {}{})".format(self._name, len(self.dom), len(self.cod),
\*     ", {}".format(format_number(self.phase)) if self.phase else "")
ZxName(box) ==
    <<box.name, box.dom, box.cod, IF box.phase[1] # 0 THEN box.phase ELSE <<>>>>

NmIdle ==
    /\ nm_args = [n_legs_in |-> 0, n_legs_out |-> 0, phase |-> 0]
    /\ nm_names = [cls \in {"Z", "X", "Y"} |-> <<>>]
    /\ nm_pc = "idle"

NmInit ==
    /\ nm_args \in [n_legs_in : 0..MaxLegs, n_legs_out : 0..MaxLegs, phase : DgPhases]
    /\ nm_names = [cls \in {"Z", "X", "Y"} |-> <<>>]
    /\ nm_pc = "called"

\* Z(n, m, p).name, X(n, m, p).name and Y(n, m, p).name
SpiderNames ==
    /\ nm_pc = "called"
    /\ nm_names' = [cls \in {"Z", "X", "Y"} |->
            ZxName(ZxSpider(cls, nm_args.n_legs_in, nm_args.n_legs_out,
                            nm_args.phase))]
    /\ nm_pc' = "done"
    /\ UNCHANGED nm_args
    /\ UNCHANGED notNm

\* ---------------------------------------------------------- specifications
InitSpiders == SpInit /\ UnIdle /\ DgIdle /\ FnIdle /\ InIdle /\ BxIdle /\ NfIdle /\ TnIdle /\ PzIdle /\ NmIdle
SpecSpiders == InitSpiders /\ [][SpNext]_vars

InitUnfuse == UnInit /\ SpIdle /\ DgIdle /\ FnIdle /\ InIdle /\ BxIdle /\ NfIdle /\ TnIdle /\ PzIdle /\ NmIdle
UnfuseNext == UnfuseApply \/ UnfuseNormalForm
SpecUnfuse == InitUnfuse /\ [][UnfuseNext]_vars

\* The interpreter runs a pending call: a call that can be entered is entered.
InitUnfuseCalls == UnCallsInit /\ SpIdle /\ DgIdle /\ FnIdle /\ InIdle /\ BxIdle /\ NfIdle /\ TnIdle /\ PzIdle /\ NmIdle
SpecUnfuseCalls == InitUnfuseCalls /\ [][UnNext]_vars /\ WF_vars(UnNext)

InitDagger == DgInit /\ SpIdle /\ UnIdle /\ FnIdle /\ InIdle /\ BxIdle /\ NfIdle /\ TnIdle /\ PzIdle /\ NmIdle
SpecDagger == InitDagger /\ [][DgNext]_vars

InitFunctor == FnInit /\ SpIdle /\ UnIdle /\ DgIdle /\ InIdle /\ BxIdle /\ NfIdle /\ TnIdle /\ PzIdle /\ NmIdle
SpecFunctor == InitFunctor /\ [][FunctorApply]_vars

InitSpiderInit == InInit /\ SpIdle /\ UnIdle /\ DgIdle /\ FnIdle /\ BxIdle /\ NfIdle /\ TnIdle /\ PzIdle /\ NmIdle
SpecSpiderInit == InitSpiderInit /\ [][InNext]_vars

InitBox2zx == BxInit /\ SpIdle /\ UnIdle /\ DgIdle /\ FnIdle /\ InIdle /\ NfIdle /\ TnIdle /\ PzIdle /\ NmIdle
SpecBox2zx == InitBox2zx /\ [][Box2zxApply]_vars

InitNormalForm ==
    NfInit /\ SpIdle /\ UnIdle /\ DgIdle /\ FnIdle /\ InIdle /\ BxIdle /\ TnIdle
        /\ PzIdle /\ NmIdle
SpecNormalForm == InitNormalForm /\ [][NfNext]_vars
InitTensor ==
    TnInit /\ SpIdle /\ UnIdle /\ DgIdle /\ FnIdle /\ InIdle /\ BxIdle /\ NfIdle
        /\ PzIdle /\ NmIdle
SpecTensor == InitTensor /\ [][LearnerTensorCall]_vars

InitToPyzx ==
    PzInit /\ SpIdle /\ UnIdle /\ DgIdle /\ FnIdle /\ InIdle /\ BxIdle /\ NfIdle
        /\ TnIdle /\ NmIdle
SpecToPyzx == InitToPyzx /\ [][PzNext]_vars

InitSpiderNames ==
    NmInit /\ SpIdle /\ UnIdle /\ DgIdle /\ FnIdle /\ InIdle /\ BxIdle /\ NfIdle
        /\ TnIdle /\ PzIdle
SpecSpiderNames == InitSpiderNames /\ [][SpiderNames]_vars

\* ------------------------------------------------------------------ claims
\* C1: Diagram.spiders(n_legs_in, n_legs_out, typ) never raises a composition
\* type mismatch (every swap layer's boundary equals the boundary of the
\* diagram it is composed onto) and returns a diagram with domain
\* typ ** n_legs_in and codomain typ ** n_legs_out.
SpidersBoundary ==
    /\ sp_pc # "AxiomError"
    /\ sp_pc = "done" =>
        /\ result_dom = TyPow(typ, n_legs_in)
        /\ result_cod = TyPow(typ, n_legs_out)

\* A finished call over three distinct objects with three legs on both sides,
\* which composed swap layers on both the domain and the codomain side.
SpidersWitness ==
    /\ sp_pc = "done"
    /\ typ = <<"x", "y", "z">>
    /\ n_legs_in = 3
    /\ n_legs_out = 3
    /\ n_swaps = 12

\* The graph of a diagram of spiders: node i <= d.dom is the i-th input wire,
\* node d.dom + k is box k, the nodes after the boxes are the output wires;
\* scan[w] is the node whose output occupies wire w.
RECURSIVE SpiderEdges(_, _, _)
SpiderEdges(d, k, scan) ==
    IF k > Len(d.boxes)
    THEN {<<scan[w], d.dom + Len(d.boxes) + w>> : w \in 1..Len(scan)}
    ELSE LET box == d.boxes[k]
             off == d.offsets[k]
             node == d.dom + k
         IN {<<scan[off + w], node>> : w \in 1..box.dom}
            \cup SpiderEdges(d, k + 1,
                    Slice(scan, 0, off) \o [w \in 1..box.cod |-> node]
                        \o SliceFrom(scan, off + box.dom))

RECURSIVE Reach(_, _)
Reach(seen, edges) ==
    LET more == seen \cup {e[2] : e \in {f \in edges : f[1] \in seen}}
                     \cup {e[1] : e \in {f \in edges : f[2] \in seen}}
    IN IF more = seen THEN seen ELSE Reach(more, edges)

\* Every input wire, box and output wire of d is joined to every other: by
\* spider fusion the diagram denotes one spider.
Connected(d) ==
    LET nodes == 1..(d.dom + Len(d.boxes) + d.cod)
        edges == SpiderEdges(d, 1, [w \in 1..d.dom |-> w])
    IN nodes # {} /\ Reach({1}, edges) = nodes

\* The phases of the boxes of d that carry one, from first to last layer.
RECURSIVE PhasesOf(_)
PhasesOf(boxes) ==
    IF boxes = <<>> THEN <<>>
    ELSE Head(boxes).phase \o PhasesOf(Tail(boxes))

SampleArities == {<<3, 1>>, <<4, 1>>, <<5, 1>>, <<1, 3>>, <<3, 3>>}

UnSampled ==
    /\ un_pc = "normal"
    /\ <<un_spider.dom, un_spider.cod>> \in SampleArities

\* C2 as stated: for the arities (3,1), (4,1), (5,1), (1,3), (3,3), with and
\* without a phase, the normal form of Spider(a, b, x).unfuse() equals the
\* Spider(a, b, x) box.
UnfuseEqualsSpider ==
    UnSampled => un_normal = BoxDiagram(un_spider)

\* C2 as amended: for these arities the normal form of the unfusion has the
\* boundary of the spider and fuses to it (a well-typed, connected network of
\* spiders whose only phase is the spider's), but is not the spider box: it
\* has at least two boxes, and for Spider(4, 1, x) it is the three-box
\* diagram Spider(2,1,x) @ Spider(2,1,x) >> Spider(2,1,x).
UnfuseFusesToSpider ==
    UnSampled =>
        /\ un_normal.raised = ""
        /\ un_normal.dom = un_spider.dom
        /\ un_normal.cod = un_spider.cod
        /\ WellTyped(un_normal)
        /\ Connected(un_normal)
        /\ PhasesOf(un_normal.boxes) = un_spider.phase
        /\ Len(un_normal.boxes) >= 2
        /\ un_normal # BoxDiagram(un_spider)
        /\ un_spider = Spider(4, 1, None) =>
            un_normal = Diagram(4, 1,
                <<Spider(2, 1, None), Spider(2, 1, None), Spider(2, 1, None)>>,
                <<0, 1, 0>>)

\* The unfusion of the phased Spider(5, 1, x) was brought to normal form: four
\* (2,1) spiders and the phase shifter.
UnfuseFusesWitness ==
    /\ un_pc = "normal"
    /\ un_spider = Spider(5, 1, <<1>>)
    /\ Len(un_normal.boxes) = 5
    /\ un_normal.raised = ""

\* The boxes of the diagram unfuse returned, as a set of indices.
UnBoxes == 1..Len(un_result.boxes)

UnArity(k) == <<un_result.boxes[k].dom, un_result.boxes[k].cod>>

UnPhased == {k \in UnBoxes : un_result.boxes[k].phase # None}

\* C3: every spider box of Spider(a, b, x, phase).unfuse() has arity (0,1),
\* (1,0), (2,1), (1,2) or (1,1); without a phase no (1,1) spider occurs; with
\* a phase exactly one box carries a phase, a (1,1) spider holding the
\* original phase, which sits on a single wire between the unfusion of the
\* phase-free (a,1) spider and the unfusion of the phase-free (1,b) spider.
UnfuseArities ==
    un_pc \in {"done", "normal"} =>
        /\ \A k \in UnBoxes :
            /\ un_result.boxes[k].name = "Spider"
            /\ UnArity(k) \in MinimalArities \cup {<<1, 1>>}
        /\ un_spider.phase = None =>
            /\ UnPhased = {}
            /\ \A k \in UnBoxes : UnArity(k) # <<1, 1>>
        /\ un_spider.phase # None =>
            LET fan_in == Unfuse(Spider(un_spider.dom, 1, None))
                fan_out == Unfuse(Spider(1, un_spider.cod, None))
                k == Len(fan_in.boxes) + 1
            IN /\ UnPhased = {k}
               /\ un_result.boxes[k] = Spider(1, 1, un_spider.phase)
               /\ un_result.offsets[k] = 0
               /\ WidthAt(un_result, k) = 1
               /\ \A m \in UnBoxes : m # k => UnArity(m) # <<1, 1>>
               /\ un_result.boxes = fan_in.boxes \o <<un_result.boxes[k]>>
                                        \o fan_out.boxes

\* The phased spider of minimal arity (2,1) was unfused: its phase went onto
\* a phase shifter after the phase-free (2,1) spider.
UnfuseAritiesWitness ==
    /\ un_pc = "done"
    /\ un_spider = Spider(2, 1, <<1>>)
    /\ un_result.boxes = <<Spider(2, 1, None), Spider(1, 1, <<1>>)>>

\* The spiders the call entered in this step called unfuse on.
UnPushed == SubSeq(un_stack', 1, Len(un_stack') - Len(un_stack) + 1)

\* C4: Spider.unfuse terminates: every recursive call is made on a spider
\* strictly smaller in Measure (the dagger flip from a < b to a > b
\* included), and the outermost call returns.
UnfuseTerminates ==
    /\ [][un_calls' = un_calls + 1 =>
            \A k \in 1..Len(UnPushed) :
                Measure(UnPushed[k]) < Measure(Head(un_stack))]_vars
    /\ <>(un_pc = "returned")

\* A phased spider with more legs out than in returned after the calls on
\* its fan-in, its fan-out and the dagger flip of the fan-out.
UnfuseTerminatesWitness ==
    /\ un_pc = "returned"
    /\ un_spider = Spider(0, 5, <<1>>)
    /\ un_calls >= 6

\* The phase -p of a phase p; an absent phase stays absent.
NegatedPhase(phase) == IF phase = None THEN None ELSE <<0 - phase[1]>>

\* C5: the dagger of the spider with n legs in, m legs out and phase p is the
\* spider of the same class with m legs in, n legs out and phase -p (absent
\* stays absent), and the dagger of the dagger equals the original spider.
DaggerInvolution ==
    /\ dg_pc \in {"once", "twice"} =>
        /\ dg_once.cls = dg_spider.cls
        /\ dg_once.box.name = dg_spider.box.name
        /\ dg_once.box.dom = dg_spider.box.cod
        /\ dg_once.box.cod = dg_spider.box.dom
        /\ dg_once.box.phase = NegatedPhase(dg_spider.box.phase)
    /\ dg_pc = "twice" => dg_twice = dg_spider

\* A Z spider with 1 leg in, 3 legs out and phase 2 was daggered twice.
DaggerInvolutionWitness ==
    /\ dg_pc = "twice"
    /\ dg_spider = Object("Z", ZxSpider("Z", 1, 3, 2))
    /\ dg_once = Object("Z", ZxSpider("Z", 3, 1, 0 - 2))
    /\ dg_twice = dg_spider

\* C6: a frobenius Functor applied to a spider box with n legs in and m legs
\* out over the atomic type x returns cod.ar.spiders(n, m, F(x)): the arrow
\* map is not consulted (whatever entries it has) and only the type x goes
\* to the generic application; every other argument goes unchanged to the
\* generic application, where a box is looked up in the arrow map and the
\* spiders inside a diagram are still not looked up.
FunctorSpiderOverride ==
    fn_pc = "done" =>
        /\ fn_other.cls = "Spider" =>
            /\ fn_result = Spiders(Len(fn_other.dom), Len(fn_other.cod),
                                   fn_ob[fn_other.typ[1]])
            /\ fn_lookups = {}
            /\ fn_supers = <<FnTy(fn_other.typ)>>
        /\ fn_other.cls # "Spider" => Head(fn_supers) = fn_other
        /\ fn_other.cls = "Box" =>
            /\ fn_lookups = {fn_other}
            /\ fn_result = IF fn_other \in fn_ar THEN ArImage(fn_other)
                           ELSE KeyError
        /\ fn_other.cls = "Ty" => fn_lookups = {}
        /\ fn_lookups \cap SpidersOf(fn_other) = {}

\* A phased spider with 2 legs in and 3 legs out over y, which the arrow map
\* has an entry for, was mapped by a functor sending y to the type y @ z.
FunctorSpiderWitness ==
    /\ fn_pc = "done"
    /\ fn_other = FnSpider(2, 3, "y", <<1>>)
    /\ fn_other \in fn_ar
    /\ fn_result = Spiders(2, 3, <<"y", "z">>)

\* C7: constructing a Spider over a type that is not atomic (empty or
\* composite) fails with the not-atomic error before the name, the domain and
\* the codomain are computed and before the box is built: no spider box is
\* returned.
NotAtomicFailsFirst ==
    ~IsAtomic(in_args.typ) =>
        /\ in_pc \in {"idle", "assign", "assert", "NotAtomic"}
        /\ in_name = <<>>
        /\ in_dom = <<>>
        /\ in_cod = <<>>
        /\ in_result = <<>>

\* The constructor raised on the composite type x @ y with 2 legs in, 1 leg
\* out and a phase.
NotAtomicWitness ==
    /\ in_pc = "NotAtomic"
    /\ in_args = [n_legs_in |-> 2, n_legs_out |-> 1, typ |-> <<"x", "y">>,
                  phase |-> <<1>>]

\* C8: box2zx returns a box the translation table does not cover unchanged
\* and raises no error.
BoxPassesThrough ==
    (bx_pc = "done" /\ bx_box \in UncoveredBoxes) =>
        /\ bx_raised = ""
        /\ bx_result = bx_box

\* Claim helpers: whether two adjacent layers of d occupy disjoint wire
\* ranges, and whether d has no box without inputs, or without outputs.
DisjointLayers(d) ==
    \E i \in 1..(Len(d.boxes) - 1) : BoxOnRight(d, i) \/ BoxOnLeft(d, i)
NoState(d) == \A k \in 1..Len(d.boxes) : d.boxes[k].dom >= 1
NoEffect(d) == \A k \in 1..Len(d.boxes) : d.boxes[k].cod >= 1

TensorLayers ==
    /\ LearnerTensor(BoxDiagram(ADD), BoxDiagram(ADD)).offsets = <<0, 1>>
    /\ tn_pc = "done" =>
        /\ tn_result.raised = ""
        /\ tn_result.dom = tn_d1.dom + tn_d2.dom
        /\ tn_result.cod = tn_d1.cod + tn_d2.cod
        /\ tn_result.boxes = tn_d1.boxes \o tn_d2.boxes
        /\ Len(tn_result.offsets) = Len(tn_d1.offsets) + Len(tn_d2.offsets)
        /\ \A k \in 1..Len(tn_d1.offsets) : tn_result.offsets[k] = tn_d1.offsets[k]
        /\ \A k \in 1..Len(tn_d2.offsets) :
            tn_result.offsets[Len(tn_d1.offsets) + k] = tn_d2.offsets[k] + tn_d1.cod
        /\ WellTyped(tn_result)

TensorLayersWitness ==
    /\ tn_pc = "done"
    /\ Len(tn_d1.boxes) = 2
    /\ Len(tn_d2.boxes) = 2
    /\ tn_d1.cod = 2
    /\ tn_d2.offsets = <<1, 0>>
    /\ tn_result.offsets = tn_d1.offsets \o <<3, 2>>

\* C11: Spider(a, b, x, phase).unfuse() has domain x ** a and codomain
\* x ** b, and every >> of the recursion joins a codomain to an equal domain:
\* no composition raises, the layers of the result compose, and the left
\* operands unfuse(a - 1, 1) @ x of the odd branch and half @ half of the even
\* branch have codomain x @ x.
UnfuseComposes ==
    un_pc = "done" =>
        /\ un_result.raised = ""
        /\ un_result.dom = un_spider.dom
        /\ un_result.cod = un_spider.cod
        /\ WellTyped(un_result)
        /\ Branch(un_spider) = "odd" =>
            Tensor(Unfuse(Callees(un_spider)[1]), Id(1)).cod = 2
        /\ Branch(un_spider) = "even" =>
            LET half_spiders == Unfuse(Callees(un_spider)[1])
            IN Tensor(half_spiders, half_spiders).cod = 2
        /\ Branch(un_spider) \in {"phase", "split"} =>
            /\ Unfuse(Callees(un_spider)[1]).cod = 1
            /\ Unfuse(Callees(un_spider)[2]).dom = 1

UnfuseComposesWitness ==
    /\ un_pc = "done"
    /\ un_spider = Spider(5, 1, None)
    /\ Branch(un_spider) = "odd"
    /\ Branch(Callees(un_spider)[1]) = "even"
    /\ un_result.raised = ""
    /\ Len(un_result.boxes) = 4
    /\ un_result.dom = 5
    /\ un_result.cod = 1

\* Claim helpers for to_pyzx, computed from the diagram alone: the width
\* after r layers, the number of spiders among the first r layers, the node
\* of the spider in layer r, and the node that outputs wire k (counted from
\* 0) after r layers, found by following the wire back through the layers.
OnlySpidersAndSwaps(d) ==
    \A r \in 1..Len(d.boxes) : IsZxSpider(d.boxes[r]) \/ IsZxSwap(d.boxes[r])

RECURSIVE WidthAfter(_, _)
WidthAfter(d, r) ==
    IF r = 0 THEN d.dom
    ELSE WidthAfter(d, r - 1) - d.boxes[r].box.dom + d.boxes[r].box.cod

RECURSIVE SpidersUpTo(_, _)
SpidersUpTo(d, r) ==
    IF r = 0 THEN 0
    ELSE SpidersUpTo(d, r - 1) + (IF IsZxSpider(d.boxes[r]) THEN 1 ELSE 0)

NodeOfLayer(d, r) == d.dom + SpidersUpTo(d, r) - 1

RECURSIVE Occupant(_, _, _)
Occupant(d, r, k) ==
    IF r = 0 THEN k
    ELSE LET box == d.boxes[r].box
             offset == d.offsets[r]
         IN IF k < offset THEN Occupant(d, r - 1, k)
            ELSE IF IsZxSwap(d.boxes[r])
            THEN IF k = offset THEN Occupant(d, r - 1, offset + 1)
                 ELSE IF k = offset + 1 THEN Occupant(d, r - 1, offset)
                 ELSE Occupant(d, r - 1, k)
            ELSE IF k < offset + box.cod THEN NodeOfLayer(d, r)
            ELSE Occupant(d, r - 1, k - box.cod + box.dom)

\* The edges of the first r layers: for every spider, one edge per leg of its
\* domain, from the occupant of the leg's wire before the layer.
RECURSIVE LayerEdges(_, _)
LayerEdges(d, r) ==
    IF r = 0 THEN <<>>
    ELSE LayerEdges(d, r - 1) \o
         (IF IsZxSpider(d.boxes[r])
          THEN [i \in 1..d.boxes[r].box.dom |->
                    <<Occupant(d, r - 1, d.offsets[r] + i - 1), NodeOfLayer(d, r)>>]
          ELSE <<>>)

\* The edges to the boundary vertices of the codomain.
OutputEdges(d) ==
    [k \in 1..d.cod |->
        <<Occupant(d, Len(d.boxes), k - 1),
          d.dom + SpidersUpTo(d, Len(d.boxes)) + k - 1>>]

EdgesInto(node) == {j \in 1..Len(pz_edges) : pz_edges[j][2] = node}

\* C12: in to_pyzx of a diagram of spiders and swaps, after every layer scan
\* has one entry per wire and scan[k] is the node that outputs wire k; every
\* spider is one vertex with one edge per leg of its domain from the occupant
\* of that leg's wire, a swap adds no vertex and no edge, and at the end every
\* wire k of the codomain has one boundary vertex with one edge from scan[k].
PyzxScanOccupants ==
    (pz_pc \in {"layers", "done"} /\ OnlySpidersAndSwaps(pz_diagram)) =>
        LET d == pz_diagram
            done == pz_pc = "done"
        IN /\ Len(pz_scan) = WidthAfter(d, pz_row)
           /\ \A k \in 1..Len(pz_scan) : pz_scan[k] = Occupant(d, pz_row, k - 1)
           /\ Len(pz_vertices) =
                d.dom + SpidersUpTo(d, pz_row) + (IF done THEN d.cod ELSE 0)
           /\ pz_edges =
                LayerEdges(d, pz_row) \o (IF done THEN OutputEdges(d) ELSE <<>>)
           /\ \A r \in 1..pz_row :
                IsZxSpider(d.boxes[r]) =>
                    /\ Cardinality(EdgesInto(NodeOfLayer(d, r))) = d.boxes[r].box.dom
                    /\ pz_vertices[NodeOfLayer(d, r) + 1].y = r
           /\ done =>
                \A k \in 1..d.cod :
                    LET node == d.dom + SpidersUpTo(d, pz_row) + k - 1
                    IN /\ pz_vertices[node + 1].ty = "BOUNDARY"
                       /\ EdgesInto(node) = {Len(pz_edges) - d.cod + k}
                       /\ pz_edges[Len(pz_edges) - d.cod + k] = <<pz_scan[k], node>>

PyzxScanWitness ==
    /\ pz_pc = "done"
    /\ pz_diagram.dom = 1
    /\ Len(pz_diagram.boxes) = 3
    /\ pz_diagram.boxes[1].cls = "Z"
    /\ pz_diagram.boxes[2] = ZxSwap
    /\ pz_diagram.boxes[3].cls = "X"
    /\ pz_scan = <<2>>
    /\ Len(pz_vertices) = 4
    /\ pz_edges = <<<<0, 1>>, <<1, 2>>, <<1, 2>>, <<2, 3>>>>

\* C13: the names of Z(n, m, p), X(n, m, p) and Y(n, m, p) are pairwise
\* different and each starts with the letter of its own class.
SpiderNamesDistinct ==
    nm_pc = "done" =>
        /\ \A c1, c2 \in {"Z", "X", "Y"} : c1 # c2 => nm_names[c1] # nm_names[c2]
        /\ \A cls \in {"Z", "X", "Y"} : nm_names[cls][1] = cls

====
